---- MODULE Spec2Model ----
(***************************************************************************)
(* Model of backend/services/job_service.py (JobService) and of the poll   *)
(* route of backend/server.py: the three in-memory job tables, the         *)
(* background pipeline task of every job and the concurrent status polls,  *)
(* interleaved at the suspension points (await) of the asyncio event loop. *)
(***************************************************************************)
EXTENDS Integers, Sequences, FiniteSets, TLC

\* ------------------------------------------------------------------ bounds
MaxJobs == 1        \* submissions (job ids 1..MaxJobs)
NumPollers == 2     \* concurrent HTTP poll requests
MaxUs == 1          \* wall clock: microseconds 0..MaxUs after the start

JobIds == 1..MaxJobs
\* with one more submission, for the runs that put jobs side by side
AllJobIds == 1..(MaxJobs + 1)
UnknownId == 0      \* an id that create_video_job never returned
Pollers == 1..NumPollers

\* ------------------------------------------------------ python-like values
\* None, strings and datetimes are records, so that an optional field can be
\* compared with None.
None == [none |-> TRUE]
S(chars) == [chars |-> chars]
Truthy(v) == v # None /\ v.chars # <<>>

\* datetime.now(): the wall clock, read without advancing it
DateTime(sec, us) == [sec |-> sec, us |-> us]

\* datetime.isoformat(): the fraction is printed only when it is not zero
\* mutant: the fraction of the second is dropped
isoformat_seconds(dt) == S(<<"sec", dt.sec>>)

isoformat(dt) ==
  IF dt.us = 0 THEN S(<<"sec", dt.sec>>)
  ELSE S(<<"sec", dt.sec, ".", dt.us>>)

\* datetime.fromisoformat(): a missing fraction parses as zero microseconds
fromisoformat(s) ==
  IF Len(s.chars) > 2 THEN DateTime(s.chars[2], s.chars[4])
  ELSE DateTime(s.chars[2], 0)

\* exceptions: the class and the message argument
RuntimeError(msg) == [exc |-> "RuntimeError", msg |-> msg]
ValueError(msg) == [exc |-> "ValueError", msg |-> msg]
KeyError(key) == [exc |-> "KeyError", msg |-> ToString(key)]

\* str(e): the message; str(KeyError(k)) is the repr of the key
str(e) == IF e.exc = "KeyError" THEN S(<<"'", e.msg, "'">>) ELSE S(<<e.msg>>)

\* ------------------------------------------------------ gateway vocabulary
\* VideoJobRequest: starting image always present, ending image optional
Requests ==
  { [starting_image |-> "img_start", ending_image |-> e,
     global_context |-> S(<<"ctx">>), custom_prompt |-> S(<<"custom">>),
     duration_seconds |-> 4] : e \in {None, S(<<"img_end">>)} }

\* exceptions a gateway call can raise
GatewayErrors == { RuntimeError("quota") }

\* exceptions create_video_prompt can raise
PromptErrors == { ValueError("prompt") }

\* operation names returned by generate_video_content
OperationName(j) == S(<<"operations/", ToString(j)>>)

\* status values of get_video_status_by_name
GatewayStatuses == { "processing", "done", "error" }

\* artifact locations of get_video_status_by_name (None or "" when absent);
\* an object key can itself contain the text of the scheme
GatewayUrls ==
  { None, S(<<>>), S(<<"gs://", "bucket", "/", "key">>),
    S(<<"gs://", "bucket", "/", "gs://", "key">>) }

\* str.replace(old, new) on a string of tokens: every occurrence is replaced
replace(s, old, new) ==
  S([i \in 1..Len(s.chars) |-> IF s.chars[i] = old THEN new ELSE s.chars[i]])

\* mutant: the analysis call is appended after the image edits
Tasks_reordered(request) ==
  IF Truthy(request.ending_image)
  THEN <<"_generate_image_raw:start", "_generate_image_raw:end", "analyze_image_content">>
  ELSE <<"_generate_image_raw:start", "analyze_image_content">>

\* the fan-out list built by _process_video_job: two calls, three with an
\* ending image
Tasks(request) ==
  IF Truthy(request.ending_image)
  THEN <<"analyze_image_content", "_generate_image_raw:start", "_generate_image_raw:end">>
  ELSE <<"analyze_image_content", "_generate_image_raw:start">>

\* the value a fan-out call returns when it succeeds
TaskResult(name) ==
  CASE name = "analyze_image_content" -> S(<<"annotations">>)
    [] name = "_generate_image_raw:start" -> S(<<"clean_start">>)
    [] name = "_generate_image_raw:end" -> S(<<"clean_end">>)

\* create_video_prompt: a pure function of its three strings
create_video_prompt(custom_prompt, global_context, annotation_description) ==
  S(custom_prompt.chars \o global_context.chars \o
    (IF annotation_description = None THEN <<>> ELSE annotation_description.chars))

\* -------------------------------------------------------------------- state
VARIABLES
  pending_jobs,   \* JobService._pending_jobs : id -> dict
  jobs,           \* JobService._jobs         : id -> dict
  error_jobs,     \* JobService._error_jobs   : id -> dict
  now,            \* the wall clock read by datetime.now()
  pc,             \* position of the background task of every job
  request,        \* the request of every submitted job
  results,        \* fan-out calls of every job: running, or done with a value
  generate_args,  \* arguments of the pending generate_video_content call
  submit_time,    \* the time recorded by create_video_job (for comparison)
  task_raised,    \* ids of the jobs one of whose fan-out calls has raised
  poll_pc,        \* position of every poll request
  poll_id,        \* the job id a poll asks for
  poll_job,       \* the active record a suspended poll has read
  poll_ret,       \* what get_video_job_status returned (or raised)
  http_status,    \* the HTTP status code the route answered with
  del_calls       \* number of executions of `del self._jobs[job_id]` per id

store == <<pending_jobs, jobs, error_jobs>>
pipeline == <<pc, request, results, generate_args, submit_time, task_raised>>
polls == <<poll_pc, poll_id, poll_job, poll_ret, http_status, del_calls>>
vars == <<pending_jobs, jobs, error_jobs, now, pc, request, results,
          generate_args, submit_time, task_raised, poll_pc, poll_id, poll_job,
          poll_ret, http_status, del_calls>>

\* dict helpers
Empty == [k \in {} |-> None]
Put(d, k, v) == [x \in (DOMAIN d) \cup {k} |-> IF x = k THEN v ELSE d[x]]
Del(d, k) == [x \in (DOMAIN d) \ {k} |-> d[x]]
In(k, d) == k \in DOMAIN d

Init ==
  /\ pending_jobs = Empty
  /\ jobs = Empty
  /\ error_jobs = Empty
  /\ now = DateTime(0, 0)
  /\ pc = [j \in AllJobIds |-> "none"]
  /\ request = [j \in AllJobIds |-> None]
  /\ results = [j \in AllJobIds |-> <<>>]
  /\ generate_args = [j \in AllJobIds |-> None]
  /\ submit_time = [j \in AllJobIds |-> None]
  /\ task_raised = {}
  /\ poll_pc = [p \in Pollers |-> "idle"]
  /\ poll_id = [p \in Pollers |-> UnknownId]
  /\ poll_job = [p \in Pollers |-> None]
  /\ poll_ret = [p \in Pollers |-> None]
  /\ http_status = [p \in Pollers |-> 0]
  /\ del_calls = [j \in AllJobIds |-> 0]

\* The answer of a poll is an output that no handler reads: the client takes
\* it before the next request is handled and before the clock moves on.
\* Background tasks run meanwhile.
NoAnswerPending == \A p \in Pollers : poll_pc[p] # "responded"

\* ----------------------------------------------------------- the wall clock
Tick ==
  /\ NoAnswerPending
  /\ now.us < MaxUs
  /\ now' = DateTime(now.sec, now.us + 1)
  /\ UNCHANGED <<store, pipeline, polls>>

\* ------------------------------------------------------ create_video_job
\* mutant: an id that was handed out can be handed out again
FreshId_reused(j) == pc[j] \in {"none", "finished"}

\* uuid4 never repeats an id: ids are handed out in increasing order
FreshId(j) == pc[j] = "none" /\ \A k \in JobIds : k < j => pc[k] # "none"

\* mutant: the id is returned and the task scheduled without registering it
create_video_job_unregistered(j, req) ==
  /\ NoAnswerPending
  /\ FreshId(j)
  /\ pc' = [pc EXCEPT ![j] = "created"]
  /\ request' = [request EXCEPT ![j] = req]
  /\ submit_time' = [submit_time EXCEPT ![j] = now]
  /\ UNCHANGED <<store, now, results, generate_args, task_raised, polls>>

create_video_job(j, req) ==
  /\ NoAnswerPending
  /\ FreshId(j)
  /\ pending_jobs' = Put(pending_jobs, j,
        [status |-> "pending", job_start_time |-> isoformat(now)])
  /\ pc' = [pc EXCEPT ![j] = "created"]          \* asyncio.create_task
  /\ request' = [request EXCEPT ![j] = req]
  /\ submit_time' = [submit_time EXCEPT ![j] = now]
  /\ UNCHANGED <<jobs, error_jobs, now, results, generate_args,
                 task_raised, polls>>

\* ---------------------------------------------------- _process_video_job
\* lines 95-98: move from pending to active
\* mutant: the waiting record is left behind
move_to_active_keep(j, job) ==
  /\ jobs' = Put(jobs, j, job)
  /\ UNCHANGED <<pending_jobs, error_jobs>>

move_to_active(j, job) ==
  /\ pending_jobs' = IF In(j, pending_jobs) THEN Del(pending_jobs, j) ELSE pending_jobs
  /\ jobs' = Put(jobs, j, job)
  /\ UNCHANGED error_jobs

\* mutant: the except branch swallows the exception (`pass`)
except_handler_swallow(j, e) == UNCHANGED store

\* mutant: the except branch empties the waiting table
except_handler_clearing(j, e) ==
  /\ pending_jobs' = Empty
  /\ error_jobs' = Put(error_jobs, j,
        [status |-> "error", error |-> str(e), job_start_time |-> isoformat(now)])
  /\ UNCHANGED jobs

\* lines 101-112: the except branch
except_handler(j, e) ==
  /\ pending_jobs' = IF In(j, pending_jobs) THEN Del(pending_jobs, j) ELSE pending_jobs
  /\ error_jobs' = Put(error_jobs, j,
        [status |-> "error", error |-> str(e), job_start_time |-> isoformat(now)])
  /\ UNCHANGED jobs

\* the coroutine ends: its parameters and locals (request, tasks, results,
\* the arguments of the call it made) are dropped with its frame
finish(j) ==
  /\ pc' = [pc EXCEPT ![j] = "finished"]
  /\ request' = [request EXCEPT ![j] = None]
  /\ results' = [results EXCEPT ![j] = <<>>]
  /\ generate_args' = [generate_args EXCEPT ![j] = None]

\* mutant: `except RuntimeError`
catches_narrow(e) == e.exc = "RuntimeError"

\* line 101: `except Exception` catches every exception that derives from
\* Exception
catches(e) == e.exc \in {"RuntimeError", "ValueError", "KeyError"}

\* mutant: the pipeline is started again when it fails
raise_in_try_retry(j, e) ==
  /\ pc' = [pc EXCEPT ![j] = "created"]
  /\ results' = [results EXCEPT ![j] = <<>>]
  /\ generate_args' = [generate_args EXCEPT ![j] = None]
  /\ UNCHANGED <<store, request>>

\* an exception is raised inside the try block (lines 42-99)
raise_in_try(j, e) ==
  IF catches(e)
  THEN except_handler(j, e) /\ finish(j)
  ELSE /\ pc' = [pc EXCEPT ![j] = "crashed"]
       /\ UNCHANGED <<store, request, results, generate_args>>

\* the task starts and runs to `await asyncio.gather(*tasks)`
process_start(j) ==
  /\ pc[j] = "created"
  /\ results' = [results EXCEPT ![j] =
        [i \in 1..Len(Tasks(request[j])) |-> [state |-> "running", value |-> None]]]
  /\ pc' = [pc EXCEPT ![j] = "gather"]
  /\ UNCHANGED <<store, now, request, generate_args, submit_time, task_raised, polls>>

\* one fan-out call returns; the others keep running
task_return(j, i) ==
  /\ pc[j] = "gather"
  /\ i \in DOMAIN results[j]
  /\ results[j][i].state = "running"
  /\ results' = [results EXCEPT ![j][i] =
        [state |-> "done", value |-> TaskResult(Tasks(request[j])[i])]]
  /\ UNCHANGED <<store, now, pc, request, generate_args, submit_time, task_raised, polls>>

\* mutant: gather(..., return_exceptions=True) hands the exception over as
\* the call's result
task_raise_as_result(j, i, e) ==
  /\ pc[j] = "gather"
  /\ i \in DOMAIN results[j]
  /\ results[j][i].state = "running"
  /\ results' = [results EXCEPT ![j][i] = [state |-> "done", value |-> None]]
  /\ task_raised' = task_raised \cup {j}
  /\ UNCHANGED <<store, now, pc, request, generate_args, submit_time, polls>>

\* line 66: one fan-out call raises; gather re-raises this first exception
\* in the awaiting task at once, while the other calls keep running unheard
task_raise(j, i, e) ==
  /\ pc[j] = "gather"
  /\ i \in DOMAIN results[j]
  /\ results[j][i].state = "running"
  /\ task_raised' = task_raised \cup {j}
  /\ raise_in_try(j, e)
  /\ UNCHANGED <<now, submit_time, polls>>

\* mutant: the wait ends with the first call that returns
AnyDone(j) == \E i \in DOMAIN results[j] : results[j][i].state = "done"

\* line 66: gather returns when every call has returned
AllDone(j) == \A i \in DOMAIN results[j] : results[j][i].state = "done"

\* lines 69-81: gather returned all results; the prompt is assembled and
\* generate_video_content is called
gather_return(j) ==
  /\ pc[j] = "gather"
  /\ AllDone(j)
  /\ LET annotation_description == results[j][1].value
         starting_frame == results[j][2].value
         ending_frame == IF Len(results[j]) > 2 THEN results[j][3].value ELSE None
     IN generate_args' = [generate_args EXCEPT ![j] =
          [prompt |-> create_video_prompt(request[j].custom_prompt,
                        request[j].global_context, annotation_description),
           starting_frame |-> starting_frame,
           ending_frame |-> ending_frame,
           duration_seconds |-> request[j].duration_seconds]]
  /\ pc' = [pc EXCEPT ![j] = "generate"]
  /\ UNCHANGED <<store, now, request, results, submit_time,
                 task_raised, polls>>

\* create_video_prompt raises inside the try block
prompt_raise(j, e) ==
  /\ pc[j] = "gather"
  /\ AllDone(j)
  /\ raise_in_try(j, e)
  /\ UNCHANGED <<now, submit_time, task_raised, polls>>

\* lines 83-99: generate_video_content returned an operation
generate_return(j, operation) ==
  /\ pc[j] = "generate"
  /\ move_to_active(j,
        [job_id |-> j,
         operation_name |-> operation.name,
         job_start_time |-> isoformat(now),
         metadata |-> [annotation_description |-> results[j][1].value]])
  /\ finish(j)
  /\ UNCHANGED <<now, submit_time, task_raised, polls>>

\* generate_video_content raised
generate_raise(j, e) ==
  /\ pc[j] = "generate"
  /\ raise_in_try(j, e)
  /\ UNCHANGED <<now, submit_time, task_raised, polls>>

\* --------------------------------------------------- get_video_job_status
JobStatus(status, job_start_time, job_end_time, video_url, metadata, error) ==
  [status |-> status, job_start_time |-> job_start_time,
   job_end_time |-> job_end_time, video_url |-> video_url,
   metadata |-> metadata, error |-> error]

\* mutant: a missing job is answered like a failed one
HttpStatus_conflated(job_status) ==
  IF job_status = None THEN 500
  ELSE IF job_status.status = "error" THEN 500
  ELSE IF job_status.status = "waiting" THEN 202
  ELSE 200

\* server.py get_video_job_status: the status code of the answer
HttpStatus(job_status) ==
  IF job_status = None THEN 404
  ELSE IF job_status.status = "error" THEN 500
  ELSE IF job_status.status = "waiting" THEN 202
  ELSE 200

\* an exception that leaves the route unhandled is answered with 500
Raised(e) == [raised |-> e]
IsRaised(r) == "raised" \in DOMAIN r

\* the poll returns to the route without suspending
respond(p, id, ret) ==
  /\ poll_pc' = [poll_pc EXCEPT ![p] = "responded"]
  /\ poll_id' = [poll_id EXCEPT ![p] = id]
  /\ poll_job' = [poll_job EXCEPT ![p] = None]
  /\ poll_ret' = [poll_ret EXCEPT ![p] = ret]
  /\ http_status' = [http_status EXCEPT ![p] =
        IF IsRaised(ret) THEN 500 ELSE HttpStatus(ret)]

\* ids a client can ask for: the ones create_video_job returned, or a
\* made-up one
Pollable == { j \in AllJobIds : pc[j] # "none" } \cup {UnknownId}

\* lines 116-123: the id is in _pending_jobs
status_waiting(p, id) ==
  /\ NoAnswerPending
  /\ poll_pc[p] = "idle"
  /\ id \in Pollable
  /\ In(id, pending_jobs)
  /\ respond(p, id, JobStatus("waiting",
        fromisoformat(pending_jobs[id].job_start_time), None, None, None, None))
  /\ UNCHANGED <<store, now, pipeline, del_calls>>

\* mutant: a failed record is cleaned from memory when it is reported
status_error_evicting(p, id) ==
  /\ NoAnswerPending
  /\ poll_pc[p] = "idle"
  /\ id \in Pollable
  /\ ~In(id, pending_jobs)
  /\ In(id, error_jobs)
  /\ respond(p, id, JobStatus("error",
        fromisoformat(error_jobs[id].job_start_time), None, None, None,
        error_jobs[id].error))
  /\ error_jobs' = Del(error_jobs, id)
  /\ UNCHANGED <<pending_jobs, jobs, now, pipeline, del_calls>>

\* lines 126-134: the id is in _error_jobs
status_error(p, id) ==
  /\ NoAnswerPending
  /\ poll_pc[p] = "idle"
  /\ id \in Pollable
  /\ ~In(id, pending_jobs)
  /\ In(id, error_jobs)
  /\ respond(p, id, JobStatus("error",
        fromisoformat(error_jobs[id].job_start_time), None, None, None,
        error_jobs[id].error))
  /\ UNCHANGED <<store, now, pipeline, del_calls>>

\* lines 137-140: the id is in no table
status_not_found(p, id) ==
  /\ NoAnswerPending
  /\ poll_pc[p] = "idle"
  /\ id \in Pollable
  /\ ~In(id, pending_jobs)
  /\ ~In(id, error_jobs)
  /\ ~In(id, jobs)
  /\ respond(p, id, None)
  /\ UNCHANGED <<store, now, pipeline, del_calls>>

\* lines 137-143: the id is in _jobs; the poll suspends at
\* `await get_video_status_by_name(job["operation_name"])`
status_query(p, id) ==
  /\ NoAnswerPending
  /\ poll_pc[p] = "idle"
  /\ id \in Pollable
  /\ ~In(id, pending_jobs)
  /\ ~In(id, error_jobs)
  /\ In(id, jobs)
  /\ poll_pc' = [poll_pc EXCEPT ![p] = "await"]
  /\ poll_id' = [poll_id EXCEPT ![p] = id]
  /\ poll_job' = [poll_job EXCEPT ![p] = jobs[id]]
  /\ UNCHANGED <<store, now, pipeline, poll_ret, http_status, del_calls>>

\* lines 149-152: the artifact location becomes a public URL
video_url_of(result) ==
  IF Truthy(result.video_url)
  THEN replace(result.video_url, "gs://", "https://storage.googleapis.com/")
  ELSE None

\* mutant: the end time is stamped on every answer of the gateway
ret_of_stamped(job, result) ==
  JobStatus(result.status, fromisoformat(job.job_start_time), now,
            video_url_of(result), job.metadata, None)

\* lines 154-160
ret_of(job, result) ==
  JobStatus(result.status,
            fromisoformat(job.job_start_time),
            IF result.status = "done" THEN now ELSE None,
            video_url_of(result),
            job.metadata,
            None)

\* lines 162-163: `del self._jobs[job_id]` raises KeyError on a missing key
\* mutant: finished jobs are never cleaned from memory
evicts_never(result) == FALSE

\* mutant: a job is also cleaned from memory when the gateway reports an
\* error
evicts_terminal(result) == result.status \in {"done", "error"}

evicts(result) == result.status = "done"

\* lines 145-165: the gateway answered the status query
status_result(p, result) ==
  /\ NoAnswerPending
  /\ poll_pc[p] = "await"
  /\ LET id == poll_id[p]
         ret == ret_of(poll_job[p], result)
     IN IF evicts(result)
        THEN /\ del_calls' = [del_calls EXCEPT ![id] = @ + 1]
             /\ IF In(id, jobs)
                THEN /\ jobs' = Del(jobs, id)
                     /\ respond(p, id, ret)
                ELSE /\ jobs' = jobs
                     /\ respond(p, id, Raised(KeyError(id)))
        ELSE /\ respond(p, id, ret)
             /\ UNCHANGED <<jobs, del_calls>>
  /\ UNCHANGED <<pending_jobs, error_jobs, now, pipeline>>

\* mutant: a failing status query marks the job as failed
status_raise_failing(p, e) ==
  /\ NoAnswerPending
  /\ poll_pc[p] = "await"
  /\ respond(p, poll_id[p], Raised(e))
  /\ jobs' = Del(jobs, poll_id[p])
  /\ error_jobs' = Put(error_jobs, poll_id[p],
        [status |-> "error", error |-> str(e),
         job_start_time |-> poll_job[p].job_start_time])
  /\ UNCHANGED <<pending_jobs, now, pipeline, del_calls>>

\* line 143: the status query raised; the poll does not catch it
status_raise(p, e) ==
  /\ NoAnswerPending
  /\ poll_pc[p] = "await"
  /\ respond(p, poll_id[p], Raised(e))
  /\ UNCHANGED <<store, now, pipeline, del_calls>>

\* the client has read the answer; the poller can send the next request
client_receive(p) ==
  /\ poll_pc[p] = "responded"
  /\ poll_pc' = [poll_pc EXCEPT ![p] = "idle"]
  /\ poll_id' = [poll_id EXCEPT ![p] = UnknownId]
  /\ poll_ret' = [poll_ret EXCEPT ![p] = None]
  /\ http_status' = [http_status EXCEPT ![p] = 0]
  /\ UNCHANGED <<store, now, pipeline, poll_job, del_calls>>

\* what the gateway can answer to a status query
GatewayResults ==
  { [status |-> st, video_url |-> u] : st \in GatewayStatuses, u \in GatewayUrls }

\* ------------------------------------------------------------ specification
Pipeline(j) ==
  \/ process_start(j)
  \/ \E i \in 1..3 : task_return(j, i)
  \/ \E i \in 1..3 : \E e \in GatewayErrors : task_raise(j, i, e)
  \/ gather_return(j)
  \/ \E e \in PromptErrors : prompt_raise(j, e)
  \/ generate_return(j, [name |-> OperationName(j)])
  \/ \E e \in GatewayErrors : generate_raise(j, e)

Next ==
  \/ Tick
  \/ \E j \in JobIds : \E req \in Requests : create_video_job(j, req)
  \/ \E j \in JobIds : Pipeline(j)
  \/ \E p \in Pollers : \E id \in JobIds \cup {UnknownId} : status_waiting(p, id)
  \/ \E p \in Pollers : \E id \in JobIds \cup {UnknownId} : status_error(p, id)
  \/ \E p \in Pollers : \E id \in JobIds \cup {UnknownId} : status_not_found(p, id)
  \/ \E p \in Pollers : \E id \in JobIds \cup {UnknownId} : status_query(p, id)
  \/ \E p \in Pollers : \E result \in GatewayResults : status_result(p, result)
  \/ \E p \in Pollers : \E e \in GatewayErrors : status_raise(p, e)
  \/ \E p \in Pollers : client_receive(p)

Spec == Init /\ [][Next]_vars

\* the same service with one more submission
IsolationNext ==
  \/ Tick
  \/ \E j \in AllJobIds : \E req \in Requests : create_video_job(j, req)
  \/ \E j \in AllJobIds : Pipeline(j)
  \/ \E p \in Pollers : \E id \in AllJobIds \cup {UnknownId} : status_waiting(p, id)
  \/ \E p \in Pollers : \E id \in AllJobIds \cup {UnknownId} : status_error(p, id)
  \/ \E p \in Pollers : \E id \in AllJobIds \cup {UnknownId} : status_not_found(p, id)
  \/ \E p \in Pollers : \E id \in AllJobIds \cup {UnknownId} : status_query(p, id)
  \/ \E p \in Pollers : \E result \in GatewayResults : status_result(p, result)
  \/ \E p \in Pollers : \E e \in GatewayErrors : status_raise(p, e)
  \/ \E p \in Pollers : client_receive(p)

IsolationSpec == Init /\ [][IsolationNext]_vars

\* every gateway call of a pipeline eventually returns or raises, and the
\* event loop runs every background task that is ready
FairSpec == Spec /\ \A j \in JobIds : WF_vars(Pipeline(j))

\* ------------------------------------------------------------------ helpers
InFlight(j) == pc[j] \in {"created", "gather", "generate"}
Responded(p) == poll_pc[p] = "responded"
IsStatus(r) == r # None /\ ~IsRaised(r)
TablesOf(id) ==
  {t \in {"waiting", "active", "failed"} :
     \/ t = "waiting" /\ In(id, pending_jobs)
     \/ t = "active" /\ In(id, jobs)
     \/ t = "failed" /\ In(id, error_jobs)}
\* poller p has, in this step, called get_video_job_status(id)
Calls(p, id) == poll_pc[p] = "idle" /\ poll_pc'[p] # "idle" /\ poll_id'[p] = id
\* poller p has, in this step, got its answer
Answered(p) == poll_pc[p] # "responded" /\ poll_pc'[p] = "responded"

\* ----------------------------------------------------------------------- C1
\* C1: a job id is in the waiting table from the step that returns it (the
\* step that schedules the pipeline) until the pipeline promotes it, and
\* every poll of it answered in that interval reports status "waiting",
\* never not-found.
C1_NoLostJob ==
  /\ \A j \in JobIds : InFlight(j) => TablesOf(j) = {"waiting"}
  /\ \A p \in Pollers :
       (Responded(p) /\ poll_id[p] \in JobIds /\ InFlight(poll_id[p]))
         => (IsStatus(poll_ret[p]) /\ poll_ret[p].status = "waiting"
             /\ http_status[p] = 202)

C1_Witness ==
  \E p \in Pollers : \E j \in JobIds :
    /\ Responded(p) /\ poll_id[p] = j /\ pc[j] = "generate"
    /\ IsStatus(poll_ret[p]) /\ poll_ret[p].status = "waiting"

\* ----------------------------------------------------------------------- C2
\* C2: every id is a key of at most one of the three tables, and the step
\* that removes an id from the waiting table inserts it into the active or
\* the failed table.
ExclusivePhase == \A id \in JobIds \cup {UnknownId} : Cardinality(TablesOf(id)) <= 1

PromotionInOneStep ==
  \A j \in JobIds :
    (In(j, pending_jobs) /\ ~In(j, pending_jobs'))
      => (In(j, jobs') \/ In(j, error_jobs'))

C2_ExclusivePhase == []ExclusivePhase /\ [][PromotionInOneStep]_vars

C2_Witness ==
  \E j \in JobIds :
    /\ pc[j] = "finished" /\ TablesOf(j) = {"active"}
    /\ fromisoformat(jobs[j].job_start_time) = submit_time[j]

\* ----------------------------------------------------------------------- C3
\* C3: a job one of whose fan-out calls has raised is never in the active
\* table, its generate_video_content call is never started, and the step
\* that takes it out of the waiting table puts it into the failed table.
FanInAtomic ==
  \A j \in task_raised :
    /\ ~In(j, jobs)
    /\ generate_args[j] = None
    /\ pc[j] \in {"gather", "finished"}
    /\ pc[j] = "finished" => TablesOf(j) = {"failed"}

WaitingToFailed ==
  \A j \in task_raised :
    (In(j, pending_jobs) /\ ~In(j, pending_jobs')) => In(j, error_jobs')

C3_FanInAtomicity == []FanInAtomic /\ [][WaitingToFailed]_vars

C3_Witness ==
  \E j \in task_raised :
    /\ pc[j] = "finished" /\ TablesOf(j) = {"failed"}
    /\ error_jobs[j].error = S(<<"quota">>)

\* ----------------------------------------------------------------------- C4
\* C4: the poll that returns status "done" removes the id from the active
\* table; from then on the id is in no table and every poll that is started
\* for it returns None (404) without suspending.
EvictedGone == \A j \in JobIds : del_calls[j] > 0 => TablesOf(j) = {}

DoneEvicts ==
  \A p \in Pollers :
    (Answered(p) /\ IsStatus(poll_ret'[p]) /\ poll_ret'[p].status = "done")
      => (~In(poll_id[p], jobs') /\ del_calls'[poll_id[p]] > 0)

LaterPollNotFound ==
  \A p \in Pollers : \A j \in JobIds :
    (Calls(p, j) /\ del_calls[j] > 0)
      => (poll_pc'[p] = "responded" /\ poll_ret'[p] = None /\ http_status'[p] = 404)

C4_TerminalEviction ==
  []EvictedGone /\ [][DoneEvicts /\ LaterPollNotFound]_vars

C4_Witness ==
  \E p \in Pollers : \E j \in JobIds :
    /\ del_calls[j] > 0
    /\ Responded(p) /\ poll_id[p] = j /\ poll_ret[p] = None /\ http_status[p] = 404

\* ----------------------------------------------------------------------- C5
\* C5: `del self._jobs[job_id]` is executed at most once per job id, and no
\* poll ends with the KeyError of a second removal.
C5_EvictionExactlyOnce ==
  /\ \A j \in JobIds : del_calls[j] <= 1
  /\ \A p \in Pollers :
       (Responded(p) /\ IsRaised(poll_ret[p])) => poll_ret[p].raised.exc # "KeyError"

\* ----------------------------------------------------------------------- C6
\* C6: a poll of an id that is in the waiting table returns status
\* "waiting" with the start time recorded at submission, no end time and no
\* URL, and leaves the three tables as they are; so any two such polls of
\* the same id return the same result.
WaitingPollResult ==
  \A p \in Pollers :
    (Responded(p) /\ IsStatus(poll_ret[p]) /\ poll_ret[p].status = "waiting")
      => /\ poll_ret[p].job_start_time = submit_time[poll_id[p]]
         /\ poll_ret[p].job_end_time = None
         /\ poll_ret[p].video_url = None

WaitingPollFrame ==
  \A p \in Pollers : \A j \in JobIds :
    (Calls(p, j) /\ In(j, pending_jobs))
      => /\ poll_pc'[p] = "responded"
         /\ IsStatus(poll_ret'[p]) /\ poll_ret'[p].status = "waiting"
         /\ UNCHANGED store

C6_IdempotentWaitingPoll ==
  []WaitingPollResult /\ [][WaitingPollFrame]_vars

C6_Witness ==
  \E p \in Pollers : \E j \in JobIds :
    /\ poll_id[p] = j /\ In(j, pending_jobs)
    /\ Responded(p) /\ IsStatus(poll_ret[p]) /\ poll_ret[p].status = "waiting"
    /\ submit_time[j].us > 0 /\ poll_ret[p].job_start_time = now

\* ----------------------------------------------------------------------- C7
\* C7: a record of the failed table is never removed or changed, its id
\* never enters the waiting or the active table, and a poll of it returns
\* status "error" with the stored message without a gateway query.
FailedRetained ==
  \A j \in JobIds :
    In(j, error_jobs)
      => /\ In(j, error_jobs') /\ error_jobs'[j] = error_jobs[j]
         /\ ~In(j, pending_jobs') /\ ~In(j, jobs')

FailedPoll ==
  \A p \in Pollers : \A j \in JobIds :
    (Calls(p, j) /\ In(j, error_jobs))
      => /\ poll_pc'[p] = "responded"
         /\ IsStatus(poll_ret'[p]) /\ poll_ret'[p].status = "error"
         /\ poll_ret'[p].error = error_jobs[j].error
         /\ http_status'[p] = 500

C7_FailedTerminal == [][FailedRetained /\ FailedPoll]_vars

C7_Witness ==
  \E p \in Pollers : \E j \in JobIds :
    /\ poll_id[p] = j /\ In(j, error_jobs)
    /\ Responded(p) /\ IsStatus(poll_ret[p]) /\ poll_ret[p].status = "error"
    /\ poll_ret[p].error = S(<<"quota">>) /\ http_status[p] = 500

\* ----------------------------------------------------------------------- C8
\* C8: no exception leaves the background task; when the task ends the id
\* is in exactly one of the active and the failed table, a task that ends
\* without promoting the job has stored the message of the exception in the
\* failed table, and a finished task's id is never in the waiting table.
Contained ==
  \A j \in JobIds :
    /\ pc[j] # "crashed"
    /\ pc[j] = "finished" => ~In(j, pending_jobs)

TaskEnd ==
  \A j \in JobIds :
    (pc[j] # "finished" /\ pc'[j] = "finished")
      => /\ TablesOf(j)' \in {{"active"}, {"failed"}}
         /\ ~In(j, jobs') =>
              error_jobs'[j].error \in {str(e) : e \in GatewayErrors \cup PromptErrors}

C8_FailureContainment == []Contained /\ [][TaskEnd]_vars

C8_Witness ==
  \E j \in JobIds :
    /\ pc[j] = "finished" /\ TablesOf(j) = {"failed"}
    /\ error_jobs[j].error = S(<<"prompt">>)

\* ----------------------------------------------------------------------- C9
\* C9: when every gateway call returns or raises and the event loop runs
\* the background task, every submitted job is eventually in the active or
\* in the failed table.
C9_ProgressOutOfWaiting ==
  \A j \in JobIds : In(j, pending_jobs) ~> (In(j, jobs) \/ In(j, error_jobs))

C9_Witness ==
  \E j \in JobIds :
    /\ pc[j] = "finished" /\ TablesOf(j) = {"active"}
    /\ fromisoformat(jobs[j].job_start_time) # submit_time[j]

\* ---------------------------------------------------------------------- C10
\* C10: a poll result carries a video_url only when its status is "done".
C10_UrlOnlyWhenDone ==
  \A p \in Pollers :
    (Responded(p) /\ IsStatus(poll_ret[p]) /\ poll_ret[p].video_url # None)
      => poll_ret[p].status = "done"

\* ---------------------------------------------------------------------- C11
\* C11: in every poll result, job_end_time is set exactly when the status is
\* "done"; it is None in "waiting", "error" and "processing" results.
C11_EndTimeIffDone ==
  \A p \in Pollers :
    (Responded(p) /\ IsStatus(poll_ret[p]))
      => (poll_ret[p].job_end_time # None <=> poll_ret[p].status = "done")

C11_Witness ==
  \E p \in Pollers :
    /\ Responded(p) /\ IsStatus(poll_ret[p])
    /\ poll_ret[p].status = "done" /\ poll_ret[p].job_end_time = now

\* ---------------------------------------------------------------------- C12
\* C12: the video_url of a poll result is an artifact location
\* gs://bucket/key of the gateway with only its leading scheme replaced by
\* https://storage.googleapis.com/; bucket and key are returned as they
\* are, also when the key contains "gs://".
IsRemoteLocation(u) == Truthy(u) /\ Head(u.chars) = "gs://"

PublicUrl(u) == S(<<"https://storage.googleapis.com/">> \o Tail(u.chars))

C12_UrlRewrite ==
  \A p \in Pollers :
    (Responded(p) /\ IsStatus(poll_ret[p]) /\ poll_ret[p].video_url # None)
      => poll_ret[p].video_url \in
           { PublicUrl(u) : u \in { x \in GatewayUrls : IsRemoteLocation(x) } }

\* ---------------------------------------------------------------------- C13
\* C13: when the status query of a poll of an active job raises, the poll
\* ends with that exception and the three tables are as they were: the job
\* is neither moved to the failed table nor evicted, its record is the one
\* the poll has read, and every poll of an active id queries the gateway
\* with the record of the table.
QueryRaised(p) ==
  /\ poll_pc[p] = "await" /\ Answered(p)
  /\ IsRaised(poll_ret'[p]) /\ poll_ret'[p].raised \in GatewayErrors

FailingPollFrame ==
  \A p \in Pollers :
    QueryRaised(p)
      => /\ UNCHANGED store
         /\ del_calls' = del_calls
         /\ ~In(poll_id[p], error_jobs')
         /\ In(poll_id[p], jobs') => jobs'[poll_id[p]] = poll_job[p]

ActivePollQueries ==
  \A p \in Pollers : \A j \in JobIds :
    (Calls(p, j) /\ In(j, jobs))
      => (poll_pc'[p] = "await" /\ poll_job'[p] = jobs[j])

C13_FailingPollUntouched == [][FailingPollFrame /\ ActivePollQueries]_vars

C13_Witness ==
  \E p \in Pollers : \E q \in Pollers \ {p} :
    /\ Responded(p) /\ IsRaised(poll_ret[p])
    /\ poll_ret[p].raised \in GatewayErrors /\ http_status[p] = 500
    /\ In(poll_id[p], jobs)
    /\ poll_pc[q] = "await" /\ poll_id[q] = poll_id[p]
    /\ poll_job[q] = jobs[poll_id[p]]

\* ---------------------------------------------------------------------- C14
\* C14: the route answers 404 when get_video_job_status returns None, 500
\* when the returned status is "error", 202 when it is "waiting" and 200
\* for every other status; a not-found outcome is never answered as an
\* error status.
C14_HttpStatusMapping ==
  \A p \in Pollers :
    (Responded(p) /\ ~IsRaised(poll_ret[p]))
      => /\ poll_ret[p] = None <=> http_status[p] = 404
         /\ IsStatus(poll_ret[p]) =>
              /\ poll_ret[p].status = "error" <=> http_status[p] = 500
              /\ poll_ret[p].status = "waiting" <=> http_status[p] = 202
              /\ poll_ret[p].status \in {"processing", "done"} <=> http_status[p] = 200

C14_Witness ==
  \E p \in Pollers :
    /\ Responded(p) /\ poll_id[p] = UnknownId
    /\ poll_ret[p] = None /\ http_status[p] = 404
    /\ \E j \in JobIds : In(j, error_jobs)

\* ---------------------------------------------------------------------- C15
\* C15: the phase of a job id changes only from absent to waiting (at its
\* submission, once), from waiting to active, from waiting to failed and
\* from active to absent (eviction); a failed or evicted id never changes
\* phase again.
Phase(id) ==
  IF TablesOf(id) = {} THEN "absent"
  ELSE IF Cardinality(TablesOf(id)) = 1 THEN CHOOSE t \in TablesOf(id) : TRUE
  ELSE "mixed"

AllowedTransitions ==
  { <<"absent", "waiting">>, <<"waiting", "active">>,
    <<"waiting", "failed">>, <<"active", "absent">> }

PhaseStep ==
  \A id \in JobIds \cup {UnknownId} :
    Phase(id)' # Phase(id)
      => /\ <<Phase(id), Phase(id)'>> \in AllowedTransitions
         /\ Phase(id) = "absent" => (pc[id] = "none" /\ pc'[id] # "none")
         /\ Phase(id)' = "absent" => del_calls'[id] = 1

C15_AllowedTransitions == [][PhaseStep]_vars

C15_Witness ==
  \E j \in JobIds :
    /\ pc[j] = "finished" /\ Phase(j) = "absent" /\ del_calls[j] = 1
    /\ \A p \in Pollers : poll_pc[p] = "idle"

\* ---------------------------------------------------------------------- C16
\* C16: generate_video_content is called only when every fan-out call of
\* the job (two, three with an ending image) has returned a value, the
\* active record is created only by the step in which that call returns an
\* operation, and no job is in the active table while its pipeline still
\* has a call outstanding.
FanOutSize(req) == IF Truthy(req.ending_image) THEN 3 ELSE 2

GenerateAfterJoin ==
  \A j \in JobIds :
    (generate_args[j] = None /\ generate_args'[j] # None)
      => /\ Len(results[j]) = FanOutSize(request[j])
         /\ \A i \in 1..Len(results[j]) :
              results[j][i].state = "done" /\ results[j][i].value # None
         /\ j \notin task_raised

ActiveAfterAccept ==
  \A j \in JobIds :
    (~In(j, jobs) /\ In(j, jobs'))
      => /\ pc[j] = "generate" /\ generate_args[j] # None
         /\ jobs'[j].operation_name = OperationName(j)

NoneOutstanding ==
  \A j \in JobIds :
    In(j, jobs) => (pc[j] = "finished" /\ results[j] = <<>> /\ generate_args[j] = None)

C16_JoinBarrier ==
  []NoneOutstanding /\ [][GenerateAfterJoin /\ ActiveAfterAccept]_vars

C16_Witness ==
  \E j \in JobIds :
    /\ pc[j] = "generate" /\ Len(results[j]) = 3 /\ AllDone(j)
    /\ generate_args[j].ending_frame = TaskResult("_generate_image_raw:end")

\* ---------------------------------------------------------------------- C17
\* C17: a step of a poll leaves the waiting and the failed table as they
\* are, and leaves the active table as it is unless the gateway has
\* answered "done", in which case the polled id is removed from it; a poll
\* of an active job answered with another status leaves its record in
\* place, and a poll of an id that is not active ends without a query.
PollStep(p) == poll_pc'[p] # poll_pc[p]

\* the poll's answer is the gateway's "done" (a poll that ends with the
\* KeyError of line 163 was answered "done" as well)
AnsweredDone(p) ==
  /\ poll_pc[p] = "await" /\ Answered(p)
  /\ IF IsRaised(poll_ret'[p])
     THEN poll_ret'[p].raised.exc = "KeyError"
     ELSE poll_ret'[p].status = "done"

PollStoreFrame ==
  \A p \in Pollers :
    PollStep(p)
      => /\ pending_jobs' = pending_jobs /\ error_jobs' = error_jobs
         /\ \/ jobs' = jobs
            \/ AnsweredDone(p) /\ jobs' = Del(jobs, poll_id[p])

GatewayAnswerEffect ==
  \A p \in Pollers :
    (poll_pc[p] = "await" /\ Answered(p))
      => IF AnsweredDone(p) THEN ~In(poll_id[p], jobs') ELSE jobs' = jobs

QueryOnlyWhenActive ==
  \A p \in Pollers : \A id \in JobIds \cup {UnknownId} :
    (Calls(p, id) /\ ~In(id, jobs)) => poll_pc'[p] = "responded"

C17_PollFrame ==
  [][PollStoreFrame /\ GatewayAnswerEffect /\ QueryOnlyWhenActive]_vars

C17_Witness ==
  \E p \in Pollers :
    /\ Responded(p) /\ IsStatus(poll_ret[p])
    /\ poll_ret[p].status = "processing"
    /\ In(poll_id[p], jobs) /\ \A j \in JobIds : del_calls[j] = 0

\* ---------------------------------------------------------------------- C18
\* C18: the background task of a job never goes back to an earlier
\* position; its fan-out calls are started only by the step that enters the
\* gather, its generate_video_content call only by the step that leaves the
\* gather, so each of them is invoked at most once; once the job is in the
\* failed table no call is started for it.
PcRank(position) ==
  CASE position = "none" -> 0
    [] position = "created" -> 1
    [] position = "gather" -> 2
    [] position = "generate" -> 3
    [] position \in {"finished", "crashed"} -> 4

StartsFanOutCall(j) ==
  \E i \in DOMAIN results'[j] :
    /\ results'[j][i].state = "running"
    /\ i \in DOMAIN results[j] => results[j][i].state # "running"

StartsGenerateCall(j) == generate_args[j] = None /\ generate_args'[j] # None

NoRetry ==
  \A j \in JobIds :
    /\ PcRank(pc'[j]) >= PcRank(pc[j])
    /\ StartsFanOutCall(j) => (pc[j] = "created" /\ pc'[j] = "gather")
    /\ StartsGenerateCall(j) => (pc[j] = "gather" /\ pc'[j] = "generate")
    /\ In(j, error_jobs) => (~StartsFanOutCall(j) /\ ~StartsGenerateCall(j))
    /\ In(j, error_jobs') => pc'[j] = "finished"

C18_NoRetries == [][NoRetry]_vars

C18_Witness ==
  \E j \in JobIds :
    /\ pc[j] = "finished" /\ TablesOf(j) = {"failed"} /\ j \notin task_raised
    /\ error_jobs[j].error = S(<<"quota">>)

\* ---------------------------------------------------------------------- C19
\* C19: generate_video_content is called with the prompt built from the
\* request's custom prompt and global context and the analysis call's
\* result, with the result of the starting-image edit as starting frame and
\* with the result of the ending-image edit as ending frame (None without
\* an ending image); the active record holds the same analysis result and
\* the operation name that call returned, and polls query the gateway with
\* that name and return that metadata.
ExpectedArgs(req) ==
  [prompt |-> create_video_prompt(req.custom_prompt, req.global_context,
                                  TaskResult("analyze_image_content")),
   starting_frame |-> TaskResult("_generate_image_raw:start"),
   ending_frame |-> IF Truthy(req.ending_image)
                    THEN TaskResult("_generate_image_raw:end") ELSE None,
   duration_seconds |-> req.duration_seconds]

ExpectedMetadata ==
  [annotation_description |-> TaskResult("analyze_image_content")]

\* a result of the active branch: no message, a status of the gateway
FromGateway(r) == IsStatus(r) /\ r.error = None /\ r.status \in GatewayStatuses

C19_PipelineDataFlow ==
  /\ \A j \in JobIds :
       /\ pc[j] = "generate" => generate_args[j] = ExpectedArgs(request[j])
       /\ In(j, jobs) =>
            /\ jobs[j].job_id = j
            /\ jobs[j].operation_name = OperationName(j)
            /\ jobs[j].metadata = ExpectedMetadata
  /\ \A p \in Pollers :
       /\ poll_pc[p] = "await" =>
            poll_job[p].operation_name = OperationName(poll_id[p])
       /\ (Responded(p) /\ FromGateway(poll_ret[p])) =>
            poll_ret[p].metadata = ExpectedMetadata

C19_Witness ==
  \E p \in Pollers :
    /\ Responded(p) /\ FromGateway(poll_ret[p])
    /\ poll_ret[p].metadata = ExpectedMetadata
    /\ poll_ret[p].video_url = S(<<"https://storage.googleapis.com/", "bucket", "/", "key">>)

\* ---------------------------------------------------------------------- C20
\* C20: every poll result of a job reports the same job_start_time, the
\* time recorded at the job's submission, whether the job is waiting,
\* active or failed at the time of the poll.
C20_StableStartTime ==
  \A p \in Pollers :
    (Responded(p) /\ IsStatus(poll_ret[p]))
      => poll_ret[p].job_start_time = submit_time[poll_id[p]]

\* ---------------------------------------------------------------------- C21
\* C21: every poll result with status "error" is the result of an id of
\* the failed table and carries a non-empty error message; an active job
\* for which the gateway reports "error" is not answered as "error" with no
\* message while it stays in the active table.
C21_ErrorHasMessage ==
  \A p \in Pollers :
    (Responded(p) /\ IsStatus(poll_ret[p]) /\ poll_ret[p].status = "error")
      => /\ In(poll_id[p], error_jobs)
         /\ ~In(poll_id[p], jobs)
         /\ Truthy(poll_ret[p].error)

\* ---------------------------------------------------------------------- C22
\* C22: with two jobs side by side, a step of the pipeline of one job (its
\* submission and its failure included) or of a poll of that job leaves the
\* other job's record in each of the three tables, the other job's task and
\* the polls of the other job as they are; a poll result is computed from
\* the polled job's own record.
RecordsOf(id) ==
  << IF In(id, pending_jobs) THEN pending_jobs[id] ELSE None,
     IF In(id, jobs) THEN jobs[id] ELSE None,
     IF In(id, error_jobs) THEN error_jobs[id] ELSE None >>

TaskOf(j) == << pc[j], request[j], results[j], generate_args[j], submit_time[j] >>

PollOf(p, id) == PollStep(p) /\ (poll_id[p] = id \/ poll_id'[p] = id)

ActsFor(a) == TaskOf(a)' # TaskOf(a) \/ \E p \in Pollers : PollOf(p, a)

OtherJobFrame ==
  \A a \in AllJobIds : \A b \in AllJobIds \ {a} :
    ActsFor(a)
      => /\ RecordsOf(b)' = RecordsOf(b)
         /\ TaskOf(b)' = TaskOf(b)
         /\ del_calls'[b] = del_calls[b]
         /\ \A q \in Pollers :
              (poll_id[q] = b /\ ~PollOf(q, a))
                => /\ poll_pc'[q] = poll_pc[q] /\ poll_id'[q] = b
                   /\ poll_job'[q] = poll_job[q] /\ poll_ret'[q] = poll_ret[q]

OwnRecordResult ==
  \A p \in Pollers :
    (Answered(p) /\ IsStatus(poll_ret'[p]))
      => LET b == poll_id'[p]
             r == poll_ret'[p]
         IN /\ r.status = "waiting" =>
                 r.job_start_time = fromisoformat(pending_jobs[b].job_start_time)
            /\ (r.status = "error" /\ r.error # None) =>
                 /\ r.job_start_time = fromisoformat(error_jobs[b].job_start_time)
                 /\ r.error = error_jobs[b].error
            /\ FromGateway(r) =>
                 /\ poll_job[p].job_id = b
                 /\ r.job_start_time = fromisoformat(poll_job[p].job_start_time)
                 /\ r.metadata = poll_job[p].metadata

C22_JobIsolation == [][OtherJobFrame /\ OwnRecordResult]_vars

C22_Witness ==
  \E p \in Pollers : \E a \in AllJobIds : \E b \in AllJobIds \ {a} :
    /\ pc[a] = "finished" /\ TablesOf(a) = {"failed"}
    /\ pc[b] = "created" /\ TablesOf(b) = {"waiting"}
    /\ submit_time[a].us > submit_time[b].us
    /\ Responded(p) /\ poll_id[p] = b /\ IsStatus(poll_ret[p])
    /\ poll_ret[p].status = "waiting"
    /\ poll_ret[p].job_start_time = submit_time[b]

====
